---------------------------- MODULE Spec2Model ----------------------------
(***************************************************************************)
(* A model of heatmiser_wifi.py: the CRC16 checksum, the transport framing *)
(* (HeatmiserTransport) and the DCB decode / field write layer (Heatmiser).*)
(* Byte strings (bytearray) are sequences of integers in 0..255; Python's  *)
(* 0-based index i is the sequence index i + 1.                            *)
(***************************************************************************)
EXTENDS Integers, Sequences, FiniteSets, TLC

VARIABLES
    crc16,      \* the CRC16 instance of the transport: [High, Low] accumulators
    sock,       \* "unset" (attribute missing) | "open" | "closed"
    sent,       \* the frames handed to sock.send, in order
    wire,       \* what the next sock.recv delivers: "NoData" or a byte string
    outcome,    \* the last operation called and how it ended
    info,       \* the record returned by the last successful get_info
    pin,        \* HeatmiserTransport.pin
    device,     \* the thermostat's DCB, the bytes a whole-DCB read returns
    crcLog,     \* the direct CRC16.CRC16 calls made so far: <<input, result>>
    request,    \* the write the caller makes: [name, value, now]
    sockLog     \* the operations called and the socket calls each made, in order

vars == <<crc16, sock, sent, wire, outcome, info, pin, device, crcLog, request, sockLog>>

(***************************************************************************)
(* Bit arithmetic on bytes.                                                *)
(***************************************************************************)
Xor4 ==
    [a \in 0..15 |-> [b \in 0..15 |->
        ((a + b) % 2)
        + 2 * (((a \div 2) + (b \div 2)) % 2)
        + 4 * (((a \div 4) + (b \div 4)) % 2)
        + 8 * (((a \div 8) + (b \div 8)) % 2)]]

Xor8(a, b) == 16 * Xor4[a \div 16][b \div 16] + Xor4[a % 16][b % 16]

At(s, i) == s[i + 1]

IsByte(v) == v \in 0..255

(***************************************************************************)
(* class CRC16                                                             *)
(***************************************************************************)
CRC16_LookupHigh ==
    <<0, 16, 32, 48, 64, 80, 96, 112, 129, 145, 161, 177, 193, 209, 225, 241>>

CRC16_LookupLow ==
    <<0, 33, 66, 99, 132, 165, 198, 231, 8, 41, 74, 107, 140, 173, 206, 239>>

CRC16_Init == [High |-> 255, Low |-> 255]

CRC16_Update4Bits(self, val) ==
    LET t  == Xor4[self.High \div 16][val]
        h1 == ((self.High * 16) + (self.Low \div 16)) % 256
        l1 == (self.Low * 16) % 256
    IN  [High |-> Xor8(h1, At(CRC16_LookupHigh, t)),
         Low  |-> Xor8(l1, At(CRC16_LookupLow, t))]

CRC16_Update(self, val) ==
    LET hi == CRC16_Update4Bits(self, val \div 16)
    IN  CRC16_Update4Bits(hi, val % 16)

\* for byte in bytes[lo..hi]: self._CRC16_Update(byte).  The bytes are taken
\* in order; the range is halved (first half, then the second half from the
\* accumulators the first half leaves) only to keep the evaluation shallow.
RECURSIVE CRC16_Loop(_, _, _, _)
CRC16_Loop(self, bytes, lo, hi) ==
    IF lo > hi THEN self
    ELSE IF lo = hi THEN CRC16_Update(self, bytes[lo])
    ELSE LET mid   == (lo + hi) \div 2
             first == CRC16_Loop(self, bytes, lo, mid)
         IN  IF first.High >= 0
             THEN CRC16_Loop(first, bytes, mid + 1, hi)
             ELSE first

\* A CRC16 that keeps the accumulators of the previous call.
CRC16_NoReset(self, bytes) ==
    LET end == CRC16_Loop(self, bytes, 1, Len(bytes))
    IN  [self |-> end, ret |-> <<end.Low, end.High>>]

\* CRC16.CRC16(bytes) on the instance `self`: the instance after the call and
\* the (low, high) pair returned.
CRC16(self, bytes) ==
    LET end == CRC16_Loop([High |-> 255, Low |-> 255], bytes, 1, Len(bytes))
    IN  [self |-> end, ret |-> <<end.Low, end.High>>]

(***************************************************************************)
(* class HeatmiserTransport.  `self` is [crc16, pin, sock]; an operation   *)
(* returns its status, the CRC16 instance it leaves behind and the frames  *)
(* it handed to sock.send.                                                 *)
(***************************************************************************)
RecvSize == 1024

\* bytearray(list): every element must be in range(0, 256)
BytearrayOk(list) == \A i \in 1..Len(list) : IsByte(list[i])

\* self.sock.send(frame): the status of the call
SockSend(sk) ==
    CASE sk = "open"   -> "ok"
      [] sk = "closed" -> "OSError"
      [] OTHER         -> "AttributeError"

Sending(self, frame_list) ==
    IF ~BytearrayOk(frame_list)
    THEN [status |-> "ValueError", crc16 |-> self.crc16, out |-> <<>>]
    ELSE LET c     == CRC16(self.crc16, frame_list)
             frame == frame_list \o <<c.ret[1], c.ret[2]>>
             st    == SockSend(self.sock)
         IN  [status |-> st, crc16 |-> c.self,
              out |-> IF st = "ok" THEN <<frame>> ELSE <<>>]

_send_read_request(self, dcb_start, dcb_length) ==
    Sending(self, <<147, 11, 0,
                    self.pin % 256, self.pin \div 256,
                    dcb_start % 256, dcb_start \div 256,
                    dcb_length % 256, dcb_length \div 256>>)

_send_write_request(self, dcb_address, dcb_data) ==
    LET dcb_length == Len(dcb_data)
        length     == dcb_length + 11
    IN  Sending(self, <<163, length % 256, length \div 256,
                        self.pin % 256, self.pin \div 256,
                        1,
                        dcb_address % 256, dcb_address \div 256,
                        dcb_length>> \o dcb_data)

Received(status, crc, dcb_start, dcb_data) ==
    [status |-> status, crc16 |-> crc, dcb_start |-> dcb_start, dcb_data |-> dcb_data]

\* A checksum comparison that looks at the low byte only.
CrcMismatch_LowOnly(received_crc16_low, received_crc16_high, computed) ==
    received_crc16_low # computed[1]

\* line 147: computed is the (low, high) pair CRC16 returned
CrcMismatch(received_crc16_low, received_crc16_high, computed) ==
    (received_crc16_high # computed[2]) \/ (received_crc16_low # computed[1])

\* The DCB length checks in the other order.
DcbLengthStatus_LengthFirst(dcb_length, frame_length) ==
    IF dcb_length # frame_length - 9 THEN "DcbLengthMismatch"
    ELSE IF dcb_length = 0 THEN "WrongPin"
    ELSE "ok"

\* lines 163-167
DcbLengthStatus(dcb_length, frame_length) ==
    IF dcb_length = 0 THEN "WrongPin"
    ELSE IF dcb_length # frame_length - 9 THEN "DcbLengthMismatch"
    ELSE "ok"

\* The validation of a received byte string `data` (lines 141-172).  An index
\* past the end of the frame (frame.pop() of an empty frame, frame[i] with
\* i >= len(frame)) raises IndexError.
ParseFrame(crc, data) ==
    IF Len(data) < 2 THEN Received("IndexError", crc, 0, <<>>)
    ELSE
    LET n            == Len(data) - 2
        frame        == SubSeq(data, 1, n)
        c            == CRC16(crc, frame)
        frame_length == At(frame, 2) * 256 + At(frame, 1)
        dcb_start    == At(frame, 4) * 256 + At(frame, 3)
        dcb_length   == At(frame, 6) * 256 + At(frame, 5)
    IN  IF CrcMismatch(data[n + 1], data[n + 2], c.ret)
            THEN Received("ChecksumMismatch", c.self, 0, <<>>)
        ELSE IF n < 1 THEN Received("IndexError", c.self, 0, <<>>)
        ELSE IF At(frame, 0) # 148
            THEN Received("UnexpectedFrameType", c.self, 0, <<>>)
        ELSE IF n < 3 THEN Received("IndexError", c.self, 0, <<>>)
        ELSE IF frame_length # n + 2
            THEN Received("FrameLengthMismatch", c.self, 0, <<>>)
        ELSE IF n < 7 THEN Received("IndexError", c.self, 0, <<>>)
        ELSE IF DcbLengthStatus(dcb_length, frame_length) # "ok"
            THEN Received(DcbLengthStatus(dcb_length, frame_length), c.self, 0, <<>>)
        ELSE Received("ok", c.self, dcb_start, SubSeq(frame, 8, n))

NoData == [has |-> FALSE, data |-> <<>>]

Data(d) == [has |-> TRUE, data |-> d]

\* self.sock.recv(1024) and the validation of what it returns; rx is what
\* the socket holds (NoData: nothing arrives within the timeout).
_receive_dcb(self, rx) ==
    CASE self.sock = "unset"  -> Received("AttributeError", self.crc16, 0, <<>>)
      [] self.sock = "closed" -> Received("OSError", self.crc16, 0, <<>>)
      [] ~rx.has              -> Received("Timeout", self.crc16, 0, <<>>)
      [] OTHER ->
            ParseFrame(self.crc16,
                       IF Len(rx.data) > RecvSize
                       THEN SubSeq(rx.data, 1, RecvSize) ELSE rx.data)

\* a call of a method of the socket and how it ended
SockCall(call, status) == [call |-> call, status |-> status]

\* A failed receive answered by sending the request once more.
Answered_Resends(tx, r) ==
    IF tx.status # "ok"
    THEN [status |-> tx.status, crc16 |-> tx.crc16, out |-> tx.out, dcb_data |-> <<>>,
          calls |-> IF tx.status = "OSError" THEN <<SockCall("send", tx.status)>>
                    ELSE <<>>]
    ELSE [status |-> r.status, crc16 |-> r.crc16,
          out |-> IF r.status = "ok" THEN tx.out ELSE tx.out \o tx.out,
          dcb_data |-> r.dcb_data,
          calls |-> IF r.status = "ok"
                    THEN <<SockCall("send", "ok"), SockCall("recv", r.status)>>
                    ELSE <<SockCall("send", "ok"), SockCall("recv", r.status),
                           SockCall("send", "ok")>>]

\* What a request and its response come to: the failure of the send, or
\* else what _receive_dcb returned; out is the frame sent, calls the socket
\* calls made (send raises OSError on a socket that is not connected; with
\* no sock attribute no call is made).
Answered(tx, r) ==
    IF tx.status # "ok"
    THEN [status |-> tx.status, crc16 |-> tx.crc16, out |-> tx.out, dcb_data |-> <<>>,
          calls |-> IF tx.status = "OSError" THEN <<SockCall("send", tx.status)>>
                    ELSE <<>>]
    ELSE [status |-> r.status, crc16 |-> r.crc16, out |-> tx.out,
          dcb_data |-> r.dcb_data,
          calls |-> <<SockCall("send", "ok"), SockCall("recv", r.status)>>]

\* the request tx was made; _receive_dcb follows on the CRC16 instance the
\* request left
Requested(self, tx, rx) ==
    Answered(tx, _receive_dcb([self EXCEPT !.crc16 = tx.crc16], rx))

\* get_dcb: a read request for the whole DCB, then the response
get_dcb(self, rx) == Requested(self, _send_read_request(self, 0, 65535), rx)

\* set_dcb: a write request, then the acknowledgment (validated like any
\* response, its content not used)
set_dcb(self, dcb_address, dcb_data, rx) ==
    Requested(self, _send_write_request(self, dcb_address, dcb_data), rx)

(***************************************************************************)
(* class Heatmiser: get_info.  The decoded record (an OrderedDict) is a    *)
(* function from the field names present to their values; it is built from *)
(* a sequence of <<name, value>> assignments, a later one replacing an     *)
(* earlier one of the same name.  Temperatures (a float, raw / 10.0) are   *)
(* kept as the raw 16-bit count of tenths.                                 *)
(***************************************************************************)
DoW == <<"MON", "TUE", "WED", "THUR", "FRI", "SAT", "SUN">>

Dict(pairs) ==
    [name \in {pairs[i][1] : i \in DOMAIN pairs} |->
        LET idx == {i \in DOMAIN pairs : pairs[i][1] = name}
        IN  pairs[CHOOSE i \in idx : \A j \in idx : j <= i][2]]

Empty == <<>>

_get_info_time_triggers(dcb, first_index) ==
    [i \in 1..4 |->
        [hour     |-> At(dcb, first_index + 3 * (i - 1)),
         minute   |-> At(dcb, first_index + 3 * (i - 1) + 1),
         set_temp |-> At(dcb, first_index + 3 * (i - 1) + 2)]]

_get_info_time_triggers_hw(dcb, first_index) ==
    [i \in 1..4 |->
        [hour_on    |-> At(dcb, first_index + 4 * (i - 1)),
         minute_on  |-> At(dcb, first_index + 4 * (i - 1) + 1),
         hour_off   |-> At(dcb, first_index + 4 * (i - 1) + 2),
         minute_off |-> At(dcb, first_index + 4 * (i - 1) + 3)]]

\* a trigger group read by get_info: its info key, its kind and the index of
\* its first byte
Section(name, kind, first) == [name |-> name, kind |-> kind, first |-> first]

\* the highest index a trigger group reads
SectionLast(sec) == sec.first + (IF sec.kind = "hw" THEN 16 ELSE 12) - 1

SectionValue(dcb, sec) ==
    IF sec.kind = "hw" THEN _get_info_time_triggers_hw(dcb, sec.first)
    ELSE _get_info_time_triggers(dcb, sec.first)

\* dcb[i] with i >= len(dcb) raises IndexError
SectionsFit(dcb, secs) == \A i \in DOMAIN secs : SectionLast(secs[i]) < Len(dcb)

SectionPairs(dcb, secs) ==
    [i \in DOMAIN secs |-> <<secs[i].name, SectionValue(dcb, secs[i])>>]

\* hwt is assigned for models 4 and 5 only
Unbound == -1

\* lines 265-283: the base addresses for the model byte m
Offsets(m) ==
    IF m = 4 THEN [tb |-> 44, dl |-> 72, pm |-> 16, hr |-> 25, oo |-> 21,
                   kl |-> 22, wt |-> 107, hwt |-> 191]
    ELSE IF m = 5 THEN [tb |-> 19, dl |-> 58, pm |-> 6, hr |-> 10, oo |-> 8,
                        kl |-> 9, wt |-> 72, hwt |-> 58]
    ELSE [tb |-> 41, dl |-> 72, pm |-> 16, hr |-> 25, oo |-> 21,
          kl |-> 22, wt |-> 72, hwt |-> Unbound]

ModelName(m) ==
    CASE m = 0 -> "DT"
      [] m = 1 -> "DT-E"
      [] m = 2 -> "PRT"
      [] m = 3 -> "PRT-E"
      [] m = 4 -> "PRTHW"
      [] m = 5 -> "TM1"
      [] OTHER -> "Unknown"

SensorSelection(b) ==
    CASE b = 0 -> "Built in air sensor only"
      [] b = 1 -> "Remote air sensor only"
      [] b = 2 -> "Floor sensor only"
      [] b = 3 -> "Built in air and floor sensor"
      [] b = 4 -> "Remote air and floor sensor"
      [] OTHER -> "Unknown"

\* lines 235-357: the fields read below index 41
FixedBlock(dcb) ==
    LET m == At(dcb, 4)
        o == Offsets(m)
        b3 == At(dcb, 3)
        b13 == At(dcb, 13)
    IN    << <<"vendor_id", IF At(dcb, 2) = 0 THEN "HEATMISER" ELSE "OEM">>,
             <<"version", b3 % 128>>,
             <<"in_floor_limit_state", (b3 >= 128) \/ (b3 % 16 > 0)>>,
             <<"model", ModelName(m)>> >>
       \o (IF m <= 4
           THEN << <<"temperature_format",
                     IF At(dcb, 5) = 0 THEN "Celsius" ELSE "Fahrenheit">>,
                   <<"switch_differential", At(dcb, 6)>>,
                   <<"frost_protection_enable", At(dcb, 7) = 1>>,
                   <<"calibration_offset", At(dcb, 8) * 256 + At(dcb, 9)>>,
                   <<"output_delay_in_minutes", At(dcb, 10)>>,
                   <<"up_down_key_limit", At(dcb, 12)>>,
                   <<"sensor_selection", SensorSelection(b13)>> >>
                \o (IF b13 > 4
                    THEN << <<"optimum_start", At(dcb, 14)>>,
                            <<"rate_of_change", At(dcb, 15)>> >>
                    ELSE Empty)
           ELSE Empty)
       \o << <<"program_mode",
               IF At(dcb, o.pm) = 0 THEN "2/5 mode" ELSE "7 day mode">> >>
       \o (IF m <= 4
           THEN << <<"frost_protect_temperature", At(dcb, 17)>>,
                   <<"set_room_temp", At(dcb, 18)>>,
                   <<"floor_max_limit", At(dcb, 19)>>,
                   <<"floor_max_limit_enable", At(dcb, 20) = 1>> >>
           ELSE Empty)
       \o << <<"on_off", IF At(dcb, o.oo) = 1 THEN "On" ELSE "Off">>,
             <<"key_lock", IF At(dcb, o.kl) = 0 THEN "Unlock" ELSE "Lock">> >>
       \o (IF m <= 4
           THEN << <<"run_mode", IF At(dcb, 23) = 0
                                 THEN "Heating mode (normal mode)"
                                 ELSE "Frost protection mode">> >>
           ELSE Empty)
       \o << <<"holiday_return_date_year", 2000 + At(dcb, o.hr)>>,
             <<"holiday_return_date_month", At(dcb, o.hr + 1)>>,
             <<"holiday_return_date_day_of_month", At(dcb, o.hr + 2)>>,
             <<"holiday_return_date_hour", At(dcb, o.hr + 3)>>,
             <<"holiday_return_date_minute", At(dcb, o.hr + 4)>>,
             <<"holiday_enable", At(dcb, o.hr + 5) = 1>> >>
       \o (IF m <= 4
           THEN << <<"temp_hold_minutes", At(dcb, 31) * 256 + At(dcb, 32)>> >>
                \o (IF b13 \in {1, 4}
                    THEN << <<"air_temp", At(dcb, 34) * 256 + At(dcb, 33)>> >>
                    ELSE Empty)
                \o (IF b13 \in {2, 3, 4}
                    THEN << <<"floor_temp", At(dcb, 36) * 256 + At(dcb, 35)>> >>
                    ELSE Empty)
                \o (IF b13 \in {0, 3}
                    THEN << <<"air_temp", At(dcb, 38) * 256 + At(dcb, 37)>> >>
                    ELSE Empty)
                \o << <<"error_code", At(dcb, 39)>>,
                      <<"heating_is_currently_on", At(dcb, 40) = 1>> >>
           ELSE Empty)

\* "{:02d}".format(n)
TwoDigits(n) == IF n < 10 THEN "0" \o ToString(n) ELSE ToString(n)

\* DoW[c4 - 1] has a value for c4 - 1 in -7..6 (a negative index counts from
\* the end of the list) and raises IndexError otherwise
DoWIndexOk(weekday) == weekday - 1 \in -7..6

DoWLabel(weekday) ==
    IF weekday - 1 >= 0 THEN At(DoW, weekday - 1) ELSE At(DoW, weekday - 1 + 7)

\* lines 368-385: the clock fields, read at tb .. tb + 6
ClockBlock(dcb) ==
    LET tb == Offsets(At(dcb, 4)).tb
        year == 2000 + At(dcb, tb)
        month == At(dcb, tb + 1)
        day_of_month == At(dcb, tb + 2)
        weekday == At(dcb, tb + 3)
        hour == At(dcb, tb + 4)
        minute == At(dcb, tb + 5)
        second == At(dcb, tb + 6)
    IN  << <<"year", year>>, <<"month", month>>, <<"day_of_month", day_of_month>>,
           <<"weekday", weekday>>, <<"hour", hour>>, <<"minute", minute>>,
           <<"second", second>>,
           <<"clock", ToString(year) \o "/" \o ToString(month) \o "/"
                      \o ToString(day_of_month) \o " " \o DoWLabel(weekday) \o " "
                      \o ToString(hour) \o ":" \o TwoDigits(minute) \o ":"
                      \o TwoDigits(second)>> >>

\* lines 386-388: the weekday / weekend heating groups of models <= 4
HeatingSections(m) ==
    IF m <= 4
    THEN <<Section("weekday_triggers", "heat", 48),
           Section("weekend_triggers", "heat", 60)>>
    ELSE Empty

\* lines 392-409: the groups PRTHW and TM1 add
HotWaterSections(m) ==
    IF m = 4
    THEN <<Section("weekday_triggers", "heat", 51),
           Section("weekend_triggers", "heat", 63),
           Section("weekday_hw_triggers", "hw", 75),
           Section("weekend_hw_triggers", "hw", 91)>>
    ELSE IF m = 5
    THEN <<Section("weekday_hw_triggers", "hw", 26),
           Section("weekend_hw_triggers", "hw", 42)>>
    ELSE Empty

\* lines 393-398 and 404-407
HotWaterFields(dcb) ==
    LET m == At(dcb, 4)
    IN  IF m = 4
        THEN << <<"boost", At(dcb, 41) * 256 + At(dcb, 42)>>,
                <<"hot_water_state", IF At(dcb, 43) = 1 THEN "On" ELSE "Off">> >>
        ELSE IF m = 5
        THEN << <<"hot_water_state", IF At(dcb, 18) = 0 THEN "Off" ELSE "On">> >>
        ELSE Empty

DayNames == <<"mon", "tue", "wed", "thu", "fri", "sat", "sun">>

\* lines 423-430
DayHeatingSections(m) ==
    IF m <= 4
    THEN [k \in 1..7 |->
            Section(DayNames[k] \o "_triggers", "heat", Offsets(m).wt + 12 * (k - 1))]
    ELSE Empty

\* lines 439-446
DayHotWaterSections(m) ==
    IF m >= 4
    THEN [k \in 1..7 |->
            Section(DayNames[k] \o "_hw_triggers", "hw", Offsets(m).hwt + 16 * (k - 1))]
    ELSE Empty

Decoded(status, pairs) == [status |-> status, info |-> Dict(pairs)]

\* The DT / DT-E exit taken for model byte 0 only.
StopsAfterFixedBlock_DTOnly(m) == m < 1

\* line 360: Model DT and DT-E stops here
StopsAfterFixedBlock(m) == m <= 1

\* The 2/5 exit never taken.
StopsBeforeDays_Never(dcb) == FALSE

\* line 415: If mode is 5/2 stop here
StopsBeforeDays(dcb) == At(dcb, Offsets(At(dcb, 4)).pm) = 0

\* get_info after get_dcb (lines 230-448): the record, or the failure raised
Decode(dcb) ==
    LET m == At(dcb, 4)
        o == Offsets(m)
        upToSchedule ==
            FixedBlock(dcb) \o ClockBlock(dcb)
            \o SectionPairs(dcb, HeatingSections(m))
            \o HotWaterFields(dcb)
            \o SectionPairs(dcb, HotWaterSections(m))
    IN  IF Len(dcb) < 41 THEN Decoded("RecordTooShort", Empty)
        ELSE IF StopsAfterFixedBlock(m) THEN Decoded("ok", FixedBlock(dcb))
        ELSE IF Len(dcb) < o.dl THEN Decoded("RecordTooShort", Empty)
        ELSE IF ~DoWIndexOk(At(dcb, o.tb + 3)) THEN Decoded("IndexError", Empty)
        ELSE IF ~SectionsFit(dcb, HeatingSections(m) \o HotWaterSections(m))
            THEN Decoded("IndexError", Empty)
        ELSE IF StopsBeforeDays(dcb) THEN Decoded("ok", upToSchedule)
        ELSE IF Len(dcb) < 156 THEN Decoded("RecordTooShort", Empty)
        ELSE IF ~SectionsFit(dcb, DayHeatingSections(m))
            THEN Decoded("IndexError", Empty)
        ELSE IF m >= 4 /\ o.hwt = Unbound THEN Decoded("UnboundLocalError", Empty)
        ELSE IF ~SectionsFit(dcb, DayHotWaterSections(m))
            THEN Decoded("IndexError", Empty)
        ELSE Decoded("ok", upToSchedule
                           \o SectionPairs(dcb, DayHeatingSections(m))
                           \o SectionPairs(dcb, DayHotWaterSections(m)))

\* what get_info returns or raises once get_dcb has ended as g
Returned(g) ==
    IF g.status # "ok"
    THEN [status |-> g.status, crc16 |-> g.crc16, out |-> g.out, info |-> <<>>,
          calls |-> g.calls]
    ELSE LET d == Decode(g.dcb_data)
         IN  [status |-> d.status, crc16 |-> g.crc16, out |-> g.out, info |-> d.info,
              calls |-> g.calls]

\* get_info: get_dcb, then the decode of the DCB it returns
get_info(self, rx) == Returned(get_dcb(self, rx))

(***************************************************************************)
(* class Heatmiser: set_clock and set_value.  A caller's value is          *)
(* [kind, s, n, l]: a str (s), an int (n), a bool (n is 0 or 1) or a list  *)
(* of ints (l).                                                            *)
(***************************************************************************)
PyStr(s) == [kind |-> "str", s |-> s, n |-> 0, l |-> <<>>]

PyInt(n) == [kind |-> "int", s |-> "", n |-> n, l |-> <<>>]

PyBool(b) == [kind |-> "bool", s |-> "", n |-> IF b THEN 1 ELSE 0, l |-> <<>>]

PyList(l) == [kind |-> "list", s |-> "", n |-> 0, l |-> l]

\* the decimal strings among the values a caller passes
Decimals == ("0" :> 0) @@ ("1" :> 1) @@ ("5" :> 5) @@ ("300" :> 300)

\* what a field branch ends in: a DCB address and the bytes to write there,
\* or the exception raised before set_dcb is called
Write(address, data) == [status |-> "ok", address |-> address, data |-> data]

Raise(status) == [status |-> status, address |-> 0, data |-> <<>>]

\* value == "label"
IsStr(value, label) == value.kind = "str" /\ value.s = label

\* bytearray([int(value)]) written at address
IntField(address, value) ==
    CASE value.kind = "list" -> Raise("TypeError")
      [] value.kind = "str" /\ value.s \notin DOMAIN Decimals -> Raise("ValueError")
      [] OTHER ->
            LET n == IF value.kind = "str" THEN Decimals[value.s] ELSE value.n
            IN  IF IsByte(n) THEN Write(address, <<n>>) ELSE Raise("ValueError")

\* A label branch whose else falls through to the write.
LabelField_NoElse(address, value, labels) ==
    IF \E i \in DOMAIN labels : IsStr(value, labels[i][1])
    THEN LET i == CHOOSE j \in DOMAIN labels : IsStr(value, labels[j][1])
         IN  Write(address, <<labels[i][2]>>)
    ELSE Write(address, <<0>>)

\* if(value == label) value = byte ... else raise: labels is <<label, byte>>*
LabelField(address, value, labels) ==
    IF \E i \in DOMAIN labels : IsStr(value, labels[i][1])
    THEN LET i == CHOOSE j \in DOMAIN labels : IsStr(value, labels[j][1])
         IN  Write(address, <<labels[i][2]>>)
    ELSE Raise("InvalidFieldValue")

\* lines 484-491: True, "True", "1", 1 / False, "False", "0", 0
FlagField(address, value) ==
    IF (value.kind \in {"bool", "int"} /\ value.n = 1)
       \/ IsStr(value, "True") \/ IsStr(value, "1")
    THEN Write(address, <<1>>)
    ELSE IF (value.kind \in {"bool", "int"} /\ value.n = 0)
            \/ IsStr(value, "False") \/ IsStr(value, "0")
    THEN Write(address, <<0>>)
    ELSE Raise("InvalidFieldValue")

\* bytearray(value) written at address: a list of byte values is taken as it
\* is, an int n >= 0 (or a bool) makes n zero bytes, a str is refused
TriggerField(address, value) ==
    CASE value.kind = "str" -> Raise("TypeError")
      [] value.kind = "list" ->
            IF BytearrayOk(value.l) THEN Write(address, value.l)
            ELSE Raise("ValueError")
      [] OTHER ->
            IF value.n >= 0 THEN Write(address, [i \in 1..value.n |-> 0])
            ELSE Raise("ValueError")

\* The read indices of get_info taken for the write addresses.
TriggerAddress_ReadIndex(name) ==
    CASE name = "weekday_triggers" -> 48
      [] name = "weekend_triggers" -> 60
      [] name = "weekday_hw_triggers" -> 75
      [] OTHER -> 107

\* lines 540-575: the names tested in the order of the elif chain; the second
\* test of "weekday_hw_triggers" (address 87) is never reached
TriggerAddress(name) ==
    CASE name = "weekday_triggers" -> 47
      [] name = "weekend_triggers" -> 59
      [] name = "weekday_hw_triggers" -> 71
      [] name = "mon_triggers" -> 103
      [] name = "tue_triggers" -> 115
      [] name = "wed_triggers" -> 127
      [] name = "thu_triggers" -> 139
      [] name = "fri_triggers" -> 151
      [] name = "sat_triggers" -> 163
      [] name = "sun_triggers" -> 175
      [] name = "mon_hw_triggers" -> 187
      [] name = "tue_hw_triggers" -> 203
      [] name = "wed_hw_triggers" -> 219
      [] name = "thu_hw_triggers" -> 235
      [] name = "fri_hw_triggers" -> 251
      [] name = "sat_hw_triggers" -> 267
      [] name = "sun_hw_triggers" -> 283

TriggerNames ==
    {"weekday_triggers", "weekend_triggers", "weekday_hw_triggers"}
    \cup {DayNames[k] \o "_triggers" : k \in 1..7}
    \cup {DayNames[k] \o "_hw_triggers" : k \in 1..7}

\* set_clock: now is [y, m, d, w, H, M, S] as strftime gives them (%y two
\* digits, %w the weekday with Sunday = 0); the write goes to address 43
ClockWrite(now) ==
    Write(43, <<now.y, now.m, now.d, now.w + 1, now.H, now.M, now.S>>)

\* The clock branch taken for every remaining name.
Unsupported_SetsClock(name, now) == ClockWrite(now)

\* lines 578-579: not supported to be set
Unsupported(name, now) == Raise("UnknownField")

\* set_value up to the set_dcb call (lines 475-579)
FieldWrite(name, value, now) ==
    CASE name = "switch_differential" -> IntField(6, value)
      [] name = "frost_protect_temperature" -> IntField(17, value)
      [] name = "set_room_temp" -> IntField(18, value)
      [] name = "floor_max_limit" -> IntField(19, value)
      [] name = "floor_max_limit_enable" -> FlagField(20, value)
      [] name = "on_off" -> LabelField(21, value, << <<"On", 1>>, <<"Off", 0>> >>)
      [] name = "key_lock" ->
            LabelField(22, value, << <<"Lock", 1>>, <<"Unlock", 0>> >>)
      [] name = "run_mode" ->
            LabelField(23, value, << <<"Frost protection mode", 1>>,
                                     <<"Heating mode (normal mode)", 0>> >>)
      [] name = "away_mode" -> LabelField(31, value, << <<"off", 0>>, <<"on", 1>> >>)
      [] name = "hot_water_state" ->
            LabelField(42, value, << <<"off", 2>>, <<"on", 1>>, <<"prog", 0>> >>)
      [] name \in TriggerNames -> TriggerField(TriggerAddress(name), value)
      [] name = "clock" -> ClockWrite(now)
      [] OTHER -> Unsupported(name, now)

\* the exception a field branch raised, or else its set_dcb call
Written(self, w, rx) ==
    IF w.status # "ok"
    THEN [status |-> w.status, crc16 |-> self.crc16, out |-> <<>>, dcb_data |-> <<>>,
          calls |-> <<>>]
    ELSE set_dcb(self, w.address, w.data, rx)

\* set_value(name, value); now is the time datetime.now() returns
set_value(self, name, value, now, rx) ==
    Written(self, FieldWrite(name, value, now), rx)

set_clock(self, now, rx) == Written(self, ClockWrite(now), rx)

(***************************************************************************)
(* HeatmiserTransport.connect and disconnect: what becomes of self.sock.   *)
(***************************************************************************)
\* connect: self.sock is a new socket; when the peer cannot be reached
\* sock.connect raises and the socket stays unconnected, which send and recv
\* answer with OSError as they do on a closed socket
connect(self, reachable) ==
    IF reachable THEN [status |-> "ok", sock |-> "open"]
    ELSE [status |-> "OSError", sock |-> "closed"]

\* disconnect: self.sock.close(); __init__ sets no sock attribute
disconnect(self) ==
    IF self.sock = "unset" THEN [status |-> "AttributeError", sock |-> self.sock]
    ELSE [status |-> "ok", sock |-> "closed"]

Self == [crc16 |-> crc16, pin |-> pin, sock |-> sock]

Outcome(op, status, arg, ret) ==
    [op |-> op, status |-> status, arg |-> arg, ret |-> ret]

NoInfo == <<>>

\* a caller's write: the field name, the value and the time of the call
Request(name, value, now) == [name |-> name, value |-> value, now |-> now]

NoRequest == <<>>

(***************************************************************************)
(* SpecCRC: successive CRC16.CRC16 calls on one instance.                  *)
(***************************************************************************)
MaxCrcLen == 2

MaxCalls == 3

CrcBytes == {148, 255}

RECURSIVE SeqsUpTo(_, _)
SeqsUpTo(S, n) ==
    IF n = 0 THEN {<<>>}
    ELSE LET shorter == SeqsUpTo(S, n - 1)
         IN  shorter \cup {Append(q, x) : q \in shorter, x \in S}

CrcInputs == SeqsUpTo(CrcBytes, MaxCrcLen)

InitCRC ==
    /\ crc16 = CRC16_Init
    /\ sock = "unset"
    /\ sent = <<>>
    /\ wire = NoData
    /\ outcome = Outcome("init", "ok", <<>>, <<>>)
    /\ info = NoInfo
    /\ pin = 0
    /\ device = <<>>
    /\ request = NoRequest
    /\ sockLog = <<>>
    /\ crcLog = <<>>

CallCRC16(bytes) ==
    /\ Len(crcLog) < MaxCalls
    /\ \E c \in {CRC16(crc16, bytes)} :
           /\ crc16' = c.self
           /\ crcLog' = Append(crcLog, <<bytes, c.ret>>)
           /\ outcome' = Outcome("CRC16", "ok", bytes, c.ret)
    /\ UNCHANGED <<sock, sent, wire, info, pin, device, request, sockLog>>

NextCRC == \E bytes \in CrcInputs : CallCRC16(bytes)

SpecCRC == InitCRC /\ [][NextCRC]_vars

\* C4: on one CRC16 instance, two calls with the same input return the same
\* (low, high) pair whatever calls were made before or between them, and a
\* call with the empty input returns (0xFF, 0xFF).
C4_ResultDependsOnInputOnly ==
    \A i \in 1..Len(crcLog) :
        /\ \A j \in 1..Len(crcLog) :
              crcLog[i][1] = crcLog[j][1] => crcLog[i][2] = crcLog[j][2]
        /\ crcLog[i][1] = <<>> => crcLog[i][2] = <<255, 255>>

\* the same input was checksummed first on a fresh instance and again after a
\* call with another input, and the empty input after a non-empty one
C4_Witness ==
    /\ Len(crcLog) >= 3
    /\ crcLog[1][1] = crcLog[3][1]
    /\ crcLog[1][1] # crcLog[2][1]
    /\ crcLog[1][1] # <<>>

(***************************************************************************)
(* SpecFrame: the transport on an open socket.  Request frames are sent,   *)
(* the peer answers a request with one byte string (a response frame, a    *)
(* damaged or cut one, or the request echoed back), and _receive_dcb       *)
(* validates it.                                                           *)
(***************************************************************************)
MaxSent == 1

MaxPayload == 2

Pins == {4660, 70000}

ReadArgs == {<<0, 65535>>, <<300, 2>>}

WriteArgs == {<<21, <<1>>>>, <<283, <<0, 255>>>>, <<47, <<>>>>}

\* the bytes before the checksum of a response frame: type, frame length
\* (payload + 9 + lenOff), DCB start 0, DCB length dcbLen, payload
ResponseBody(type, payload, lenOff, dcbLen) ==
    <<type, (Len(payload) + 9 + lenOff) % 256, (Len(payload) + 9 + lenOff) \div 256,
      0, 0, dcbLen % 256, dcbLen \div 256>> \o payload

\* the first k bytes of a response header whose frame length field is k + 2
ShortBody(k) == SubSeq(<<148, k + 2, 0, 0, 0, 0, 0>>, 1, k)

\* body followed by its checksum, with one byte of it changed on demand
WithCrc(body, crcKind) ==
    LET c == CRC16(CRC16_Init, body).ret
    IN  CASE crcKind = "good"    -> body \o <<c[1], c[2]>>
          [] crcKind = "badLow"  -> body \o <<(c[1] + 1) % 256, c[2]>>
          [] crcKind = "badHigh" -> body \o <<c[1], (c[2] + 128) % 256>>
          [] OTHER               -> body

RxData ==
    {WithCrc(ResponseBody(type, [i \in 1..n |-> i], lenOff, dcbLen), k) :
        type \in {148, 147}, n \in 0..MaxPayload, lenOff \in {0, 1},
        dcbLen \in 0..(MaxPayload + 1), k \in {"good", "badLow", "badHigh"}}
    \cup {WithCrc(ShortBody(k), c) : k \in 0..6, c \in {"good", "none"}}

InitFrame ==
    /\ crc16 = CRC16_Init
    /\ sock = "open"
    /\ sent = <<>>
    /\ wire = NoData
    /\ outcome = Outcome("init", "ok", <<>>, <<>>)
    /\ info = NoInfo
    /\ pin \in Pins
    /\ device = <<>>
    /\ request = NoRequest
    /\ sockLog = <<>>
    /\ crcLog = <<>>

SendReadRequest(dcb_start, dcb_length) ==
    /\ Len(sent) < MaxSent
    /\ \E r \in {_send_read_request(Self, dcb_start, dcb_length)} :
           /\ crc16' = r.crc16
           /\ sent' = sent \o r.out
           /\ outcome' = Outcome("_send_read_request", r.status,
                                 <<dcb_start, dcb_length>>, <<>>)
    /\ UNCHANGED <<sock, wire, info, pin, device, crcLog, request, sockLog>>

SendWriteRequest(dcb_address, dcb_data) ==
    /\ Len(sent) < MaxSent
    /\ \E r \in {_send_write_request(Self, dcb_address, dcb_data)} :
           /\ crc16' = r.crc16
           /\ sent' = sent \o r.out
           /\ outcome' = Outcome("_send_write_request", r.status,
                                 <<dcb_address, dcb_data>>, <<>>)
    /\ UNCHANGED <<sock, wire, info, pin, device, crcLog, request, sockLog>>

\* the peer answers the request just sent
Respond(data) ==
    /\ outcome.op \in {"_send_read_request", "_send_write_request"}
    /\ outcome.status = "ok"
    /\ ~wire.has
    /\ wire' = Data(data)
    /\ UNCHANGED <<crc16, sock, sent, outcome, info, pin, device, crcLog, request, sockLog>>

\* the peer sends the request back unchanged
Echo ==
    /\ sent # <<>>
    /\ Respond(sent[Len(sent)])

ReceiveDcb ==
    /\ \E r \in {_receive_dcb(Self, wire)} :
           /\ crc16' = r.crc16
           /\ outcome' = Outcome("_receive_dcb", r.status, wire,
                                 <<r.dcb_start, r.dcb_data>>)
    /\ wire' = NoData
    /\ UNCHANGED <<sock, sent, info, pin, device, crcLog, request, sockLog>>

NextFrame ==
    \/ \E a \in ReadArgs : SendReadRequest(a[1], a[2])
    \/ \E a \in WriteArgs : SendWriteRequest(a[1], a[2])
    \/ \E d \in RxData : Respond(d)
    \/ Echo
    \/ ReceiveDcb

SpecFrame == InitFrame /\ [][NextFrame]_vars

\* the bytes _receive_dcb was given by its last call
RxBytes == outcome.arg.data

GotData == outcome.op = "_receive_dcb" /\ outcome.arg.has

\* the last two bytes of d are (low, high) of the checksum of the bytes before
TrailingCrcCorrect(d) ==
    /\ Len(d) >= 2
    /\ <<d[Len(d) - 1], d[Len(d)]>> = CRC16(CRC16_Init, SubSeq(d, 1, Len(d) - 2)).ret

\* d has the 7 header bytes and a checksum, the checksum is correct, the first
\* byte is 0x94 and the DCB length field (bytes 5..6) is 0
ZeroDcbLengthFrame(d) ==
    /\ Len(d) >= 9
    /\ TrailingCrcCorrect(d)
    /\ At(d, 0) = 148
    /\ At(d, 5) = 0 /\ At(d, 6) = 0

\* C1 as stated: a response with a correct checksum, first byte 0x94 and DCB
\* length 0 fails WrongPin whatever its other fields hold.
C1_WrongPinWhateverOtherFields ==
    (GotData /\ ZeroDcbLengthFrame(RxBytes)) => outcome.status = "WrongPin"

\* C1 amended: a response with a correct checksum, first byte 0x94, a frame
\* length field (bytes 1..2) equal to the number of bytes received and DCB
\* length 0 fails WrongPin, whatever DCB start and payload it holds.
C1_WrongPinWhenFrameLengthRight ==
    (/\ GotData
     /\ ZeroDcbLengthFrame(RxBytes)
     /\ At(RxBytes, 2) * 256 + At(RxBytes, 1) = Len(RxBytes))
        => outcome.status = "WrongPin"

\* a zero DCB length frame that still carries payload bytes was refused as
\* WrongPin
C1_Witness ==
    /\ GotData
    /\ ZeroDcbLengthFrame(RxBytes)
    /\ Len(RxBytes) > 9
    /\ outcome.status = "WrongPin"

\* C2: whatever bytes arrive, _receive_dcb returns or fails with one of the
\* five named failures and with no other kind of failure.
C2_OnlyNamedFailures ==
    GotData =>
        outcome.status \in {"ok", "ChecksumMismatch", "UnexpectedFrameType",
                            "FrameLengthMismatch", "WrongPin", "DcbLengthMismatch"}

\* C3: the validator reports a checksum mismatch exactly when the last two
\* bytes differ from (low, high) of the checksum of the bytes before them; so
\* a request frame built by _send_read_request or _send_write_request and
\* handed back to the validator passes the checksum step (it is refused only
\* for its type byte), and a frame with one checksum byte changed is refused
\* with ChecksumMismatch.
C3_ChecksumAcceptedIffEqual ==
    (GotData /\ Len(RxBytes) >= 2) =>
        /\ (outcome.status = "ChecksumMismatch") <=> ~TrailingCrcCorrect(RxBytes)
        /\ (sent # <<>> /\ RxBytes = sent[Len(sent)])
              => outcome.status = "UnexpectedFrameType"

\* a write request came back and passed the checksum step
C3_Witness ==
    /\ GotData
    /\ sent # <<>>
    /\ RxBytes = sent[Len(sent)]
    /\ At(RxBytes, 0) = 163
    /\ outcome.status = "UnexpectedFrameType"

(***************************************************************************)
(* SpecDecode: get_info against a thermostat whose DCB is any of a family  *)
(* of byte strings: every length at which a decode step starts or stops    *)
(* reading, every model byte, both program modes, weekday bytes inside and *)
(* outside 1..7.                                                           *)
(***************************************************************************)
MaxDcbLen == 303

DcbLens ==
    ({1, 5, 40, 41, 57, 58, 71, 72, 74, 75, 106, 107, 155, 156, 169, 170, 190, 191, 302, 303}
        \cap 1..MaxDcbLen) \cup {MaxDcbLen}

ModelBytes == 0..6 \cup {255}

ModeBytes == {0, 1}

WeekdayBytes == {0, 1, 8}

FillBytes == {1, 5}

\* a DCB of len bytes: model byte m at 4, mode byte at the model's program
\* mode address, weekday byte at the model's clock address + 3, fill elsewhere
DeviceDcb(len, m, mode, weekday, fill) ==
    [i \in 1..len |->
        IF i - 1 = 4 THEN m
        ELSE IF i - 1 = Offsets(m).pm THEN mode
        ELSE IF i - 1 = Offsets(m).tb + 3 THEN weekday
        ELSE fill]

DeviceDcbs ==
    {DeviceDcb(len, m, mode, weekday, fill) :
        len \in DcbLens, m \in ModelBytes, mode \in ModeBytes,
        weekday \in WeekdayBytes, fill \in FillBytes}

\* the thermostat's answer to a whole-DCB read
ReadReply(dcb) == WithCrc(ResponseBody(148, dcb, 0, Len(dcb)), "good")

InitDecode ==
    /\ crc16 = CRC16_Init
    /\ sock = "open"
    /\ sent = <<>>
    /\ wire = NoData
    /\ outcome = Outcome("init", "ok", <<>>, <<>>)
    /\ info = NoInfo
    /\ pin = 4660
    /\ device \in DeviceDcbs
    /\ request = NoRequest
    /\ sockLog = <<>>
    /\ crcLog = <<>>

GetInfo ==
    /\ Len(sent) < MaxSent
    /\ \E r \in {get_info(Self, Data(ReadReply(device)))} :
           /\ crc16' = r.crc16
           /\ sent' = sent \o r.out
           /\ outcome' = Outcome("get_info", r.status, <<>>, r.info)
           /\ info' = IF r.status = "ok" THEN r.info ELSE info
    /\ UNCHANGED <<sock, wire, pin, device, crcLog, request, sockLog>>

NextDecode == GetInfo

SpecDecode == InitDecode /\ [][NextDecode]_vars

\* get_info was called and the DCB it decoded is `device`
DecodedDevice == outcome.op = "get_info"

\* the keys of the record the last get_info call returned
Keys == DOMAIN outcome.ret

ModelByte == At(device, 4)

\* the program mode byte: offset 6 for TM1, offset 16 otherwise
ModeByte == At(device, IF ModelByte = 5 THEN 6 ELSE 16)

ClockKeys == {"year", "month", "day_of_month", "weekday", "hour", "minute",
              "second", "clock"}

DayKeys(suffix) == {DayNames[k] \o suffix : k \in 1..7}

ScheduleKeys ==
    {"weekday_triggers", "weekend_triggers", "weekday_hw_triggers",
     "weekend_hw_triggers"} \cup DayKeys("_triggers") \cup DayKeys("_hw_triggers")

\* every day mon..sun has its trigger section (heating or hot water)
DaySectionsPresent ==
    \A k \in 1..7 : (DayNames[k] \o "_triggers") \in Keys
                    \/ (DayNames[k] \o "_hw_triggers") \in Keys

DaySectionsAbsent ==
    Keys \cap (DayKeys("_triggers") \cup DayKeys("_hw_triggers")) = {}

\* C5: get_info on any DCB returns a record or fails RecordTooShort; no read
\* past the end of the buffer and no other failure occurs.
C5_RecordOrRecordTooShort ==
    DecodedDevice => outcome.status \in {"ok", "RecordTooShort"}

\* C6 as stated: whenever a DCB decodes, the per-day sections are present iff
\* the program mode byte is non-zero, and absent when it is 0; PRT in 2/5
\* mode has weekday_triggers and weekend_triggers.
C6_DaySectionsIffSevenDay ==
    (DecodedDevice /\ outcome.status = "ok") =>
        /\ ModeByte # 0 => DaySectionsPresent
        /\ ModeByte = 0 => DaySectionsAbsent
        /\ (ModelByte = 2 /\ ModeByte = 0)
              => {"weekday_triggers", "weekend_triggers"} \subseteq Keys

\* C6 amended: whenever a DCB whose model byte is not 0 (DT) or 1 (DT-E)
\* decodes, the per-day sections are present iff the program mode byte is
\* non-zero and absent when it is 0; for DT and DT-E they are absent in both
\* modes; PRT in 2/5 mode has weekday_triggers and weekend_triggers.
C6_DaySectionsIffSevenDayExceptDT ==
    (DecodedDevice /\ outcome.status = "ok") =>
        /\ (ModelByte > 1 /\ ModeByte # 0) => DaySectionsPresent
        /\ (ModelByte > 1 /\ ModeByte = 0) => DaySectionsAbsent
        /\ ModelByte <= 1 => DaySectionsAbsent
        /\ (ModelByte = 2 /\ ModeByte = 0)
              => {"weekday_triggers", "weekend_triggers"} \subseteq Keys

\* a DCB long enough for the per-day sections was decoded in 2/5 mode, and
\* they were left out
C6_Witness ==
    /\ DecodedDevice
    /\ outcome.status = "ok"
    /\ ModelByte = 2
    /\ ModeByte = 0
    /\ Len(device) >= 156
    /\ DaySectionsAbsent
    /\ "weekday_triggers" \in Keys

\* C7: a DCB of 41 bytes or more whose model byte is 0 (DT) or 1 (DT-E)
\* decodes, and the record has no clock field and no schedule section,
\* whatever the program mode byte and the length.
C7_DTHasNoClockNoSchedule ==
    (DecodedDevice /\ Len(device) >= 41 /\ ModelByte \in {0, 1}) =>
        /\ outcome.status = "ok"
        /\ Keys \cap (ClockKeys \cup ScheduleKeys) = {}

\* a DT-E DCB in 7 day mode, long enough for every section, was decoded
C7_Witness ==
    /\ DecodedDevice
    /\ outcome.status = "ok"
    /\ ModelByte = 1
    /\ ModeByte # 0
    /\ Len(device) >= 156
    /\ "model" \in Keys
    /\ outcome.ret["model"] = "DT-E"

(***************************************************************************)
(* SpecWrite: a caller on a connected session reads the thermostat and     *)
(* makes one kind of write, in any order and any number of times.  The     *)
(* thermostat answers a read with its DCB and a write with a response      *)
(* frame carrying the bytes written; its DCB is not changed by the writes  *)
(* (no claim checked here reads a value back).                             *)
(***************************************************************************)
MaxFrames == 2

\* datetime.now() on the seven days from Sunday 2026-11-01 (%w = 0) on
Times == {[y |-> 26, m |-> 11, d |-> 1 + w, w |-> w, H |-> 10, M |-> 30, S |-> 5] :
             w \in 0..6}

AnyTime == CHOOSE t \in Times : t.w = 4

LabelNames == {"on_off", "key_lock", "run_mode", "away_mode", "hot_water_state"}

NumericNames ==
    {"switch_differential", "frost_protect_temperature", "set_room_temp",
     "floor_max_limit"}

\* program_mode and model are keys of the record that set_value has no branch for
ScalarNames ==
    LabelNames \cup NumericNames \cup {"floor_max_limit_enable", "program_mode", "model"}

ScalarValues ==
    {PyStr(x) : x \in {"On", "Off", "Lock", "Unlock", "on", "off", "prog",
                       "Frost protection mode", "Heating mode (normal mode)",
                       "Sideways", "True", "False", "0", "1", "5", "300"}}
    \cup {PyInt(n) : n \in {-1, 0, 1, 5, 255, 256}}
    \cup {PyBool(TRUE), PyBool(FALSE), PyList(<<5>>)}

\* four heating slots (hour, minute, set_temp) and four hot water slots
\* (on hour, on minute, off hour, off minute)
Slots12 == <<7, 0, 21, 9, 0, 16, 17, 30, 21, 22, 0, 16>>

Slots16 == <<6, 0, 8, 0, 12, 0, 13, 0, 17, 0, 19, 0, 24, 0, 24, 0>>

TriggerValues ==
    {PyList(Slots12), PyList(Slots16), PyList(<<7, 0, 256>>), PyInt(3), PyStr("On")}

Requests ==
    {Request(name, value, AnyTime) : name \in ScalarNames, value \in ScalarValues}
    \cup {Request(name, value, AnyTime) :
             name \in TriggerNames \cup {"weekend_hw_triggers"}, value \in TriggerValues}
    \cup {Request("clock", PyInt(0), now) : now \in Times}

\* a DT, a PRT, a PRTHW and a TM1, each in 2/5 mode
WriteDevices ==
    {DeviceDcb(41, 0, 0, 1, 1), DeviceDcb(72, 2, 0, 1, 1),
     DeviceDcb(107, 4, 0, 1, 1), DeviceDcb(74, 5, 0, 1, 1)}

\* the thermostat's answer to a write of data
WriteReply(data) == ReadReply(IF data = <<>> THEN <<0>> ELSE data)

InitWrite ==
    /\ crc16 = CRC16_Init
    /\ sock = "open"
    /\ sent = <<>>
    /\ wire = NoData
    /\ outcome = Outcome("init", "ok", <<>>, <<>>)
    /\ info = NoInfo
    /\ pin = 4660
    /\ device \in WriteDevices
    /\ crcLog = <<>>
    /\ request \in Requests
    /\ sockLog = <<>>

ReadInfo ==
    /\ Len(sent) < MaxFrames
    /\ \E r \in {get_info(Self, Data(ReadReply(device)))} :
           /\ crc16' = r.crc16
           /\ sent' = sent \o r.out
           /\ outcome' = Outcome("get_info", r.status, <<>>, r.out)
           /\ info' = IF r.status = "ok" THEN r.info ELSE info
    /\ UNCHANGED <<sock, wire, pin, device, crcLog, request, sockLog>>

SetValue ==
    /\ Len(sent) < MaxFrames
    /\ \E rx \in {Data(WriteReply(FieldWrite(request.name, request.value,
                                             request.now).data))} :
       \E r \in {set_value(Self, request.name, request.value, request.now, rx)} :
           /\ crc16' = r.crc16
           /\ sent' = sent \o r.out
           /\ outcome' = Outcome("set_value", r.status,
                                 <<request.name, request.value>>, r.out)
    /\ UNCHANGED <<sock, wire, info, pin, device, crcLog, request, sockLog>>

NextWrite == ReadInfo \/ SetValue

SpecWrite == InitWrite /\ [][NextWrite]_vars


\* the last call was set_value(request.name, request.value)
WroteValue == outcome.op = "set_value"

\* the frames the last call handed to the socket
FramesOfCall == outcome.ret

\* frame is a write request for data at address
IsWriteFrame(frame, address, data) ==
    /\ Len(frame) = Len(data) + 11
    /\ frame[1] = 163
    /\ frame[7] = address % 256
    /\ frame[8] = address \div 256
    /\ frame[9] = Len(data)
    /\ SubSeq(frame, 10, 9 + Len(data)) = data

\* the last call sent one frame, a write of data at address, and succeeded
WroteAt(address, data) ==
    /\ outcome.status = "ok"
    /\ Len(FramesOfCall) = 1
    /\ IsWriteFrame(FramesOfCall[1], address, data)

\* the last call failed with status and sent nothing
FailedUnsent(status) == outcome.status = status /\ FramesOfCall = <<>>

\* the caller has read the thermostat, and the record named this model
ReadModel(model) == info # NoInfo /\ info["model"] = model

\* C8 as stated: set_value of switch_differential, program_mode or
\* floor_max_limit_enable fails UnknownField for every value and every model,
\* and sends no write frame.
C8_ReadOnlyFieldsUnknown ==
    (WroteValue /\ request.name \in {"switch_differential", "program_mode",
                                     "floor_max_limit_enable"})
        => FailedUnsent("UnknownField")

\* C8 amended: set_value of program_mode fails UnknownField for every value
\* and every model, and sends no write frame; switch_differential and
\* floor_max_limit_enable are written: an int 0..255 for switch_differential
\* goes out as one byte at address 6, and True/1/"True"/"1" (False/0/"False"/
\* "0") for floor_max_limit_enable goes out as byte 1 (0) at address 20.
C8_OnlyProgramModeUnknown ==
    WroteValue =>
        /\ request.name = "program_mode" => FailedUnsent("UnknownField")
        /\ (request.name = "switch_differential" /\ request.value.kind = "int"
            /\ request.value.n \in 0..255)
              => WroteAt(6, <<request.value.n>>)
        /\ (request.name = "floor_max_limit_enable"
            /\ request.value \in {PyBool(TRUE), PyInt(1), PyStr("True"), PyStr("1")})
              => WroteAt(20, <<1>>)
        /\ (request.name = "floor_max_limit_enable"
            /\ request.value \in {PyBool(FALSE), PyInt(0), PyStr("False"), PyStr("0")})
              => WroteAt(20, <<0>>)

\* after a read of a PRTHW, set_value("program_mode", "On") was refused
C8_Witness ==
    /\ WroteValue
    /\ ReadModel("PRTHW")
    /\ request.name = "program_mode"
    /\ request.value = PyStr("On")
    /\ FailedUnsent("UnknownField")
    /\ Len(sent) = 1

\* C9 as stated: after a successful read the session checks every write
\* against the model read; after a read that reported TM1,
\* set_value("weekday_triggers", v) fails UnknownField for every v and sends
\* no frame.
C9_WriteCheckedAgainstModelRead ==
    (WroteValue /\ ReadModel("TM1") /\ request.name = "weekday_triggers")
        => FailedUnsent("UnknownField")

\* C9 amended: a write is not checked against the model of an earlier read:
\* with or without a read before it, and whatever model that read reported
\* (TM1 included), set_value("weekday_triggers", v) with v a list of byte
\* values sends one write frame carrying v at address 47 and does not fail
\* UnknownField.
C9_WriteIgnoresModelRead ==
    (WroteValue /\ request.name = "weekday_triggers"
     /\ request.value.kind = "list" /\ BytearrayOk(request.value.l))
        => WroteAt(47, request.value.l)

\* a TM1 was read, and then weekday_triggers was written to it
C9_Witness ==
    /\ WroteValue
    /\ ReadModel("TM1")
    /\ request.name = "weekday_triggers"
    /\ request.value = PyList(Slots12)
    /\ Len(sent) = 2
    /\ IsWriteFrame(sent[2], 47, Slots12)

\* the value is none of the strings the label field defines, or is a number
\* (an int, or a str of decimal digits) outside 0..255 for a one-byte field,
\* or a trigger list with a number outside 0..255
Malformed(name, value) ==
    \/ /\ name = "on_off"
       /\ value \notin {PyStr("On"), PyStr("Off")}
    \/ /\ name = "key_lock"
       /\ value \notin {PyStr("Lock"), PyStr("Unlock")}
    \/ /\ name = "run_mode"
       /\ value \notin {PyStr("Frost protection mode"),
                        PyStr("Heating mode (normal mode)")}
    \/ /\ name = "away_mode"
       /\ value \notin {PyStr("on"), PyStr("off")}
    \/ /\ name = "hot_water_state"
       /\ value \notin {PyStr("on"), PyStr("off"), PyStr("prog")}
    \/ /\ name \in NumericNames
       /\ \/ value.kind = "int" /\ value.n \notin 0..255
          \/ value.kind = "str" /\ value.s \in DOMAIN Decimals
             /\ Decimals[value.s] \notin 0..255
    \/ /\ name \in TriggerNames
       /\ value.kind = "list"
       /\ ~BytearrayOk(value.l)

\* C10: a set_value call whose value is malformed for the named field (a
\* label that is not one of the field's strings, a number that does not fit
\* one byte) fails, and the frames sent on the socket are what they were
\* before the call.
C10_MalformedValueSendsNothing ==
    [][(outcome'.op = "set_value" /\ Malformed(request.name, request.value))
          => (outcome'.status # "ok" /\ sent' = sent /\ outcome'.ret = <<>>)]_vars

\* after a read, set_value("on_off", "Sideways") and
\* set_value("set_room_temp", 256) failed with nothing more sent
C10_Witness ==
    /\ WroteValue
    /\ Len(sent) = 1
    /\ \/ request.name = "on_off" /\ request.value = PyStr("Sideways")
          /\ FailedUnsent("InvalidFieldValue")
       \/ request.name = "set_room_temp" /\ request.value = PyInt(256)
          /\ FailedUnsent("ValueError")

(***************************************************************************)
(* Spec: one session from its construction on.  The caller connects,       *)
(* disconnects, reads (get_info), writes its request (set_value) and sets  *)
(* the clock (set_clock) in any order.  The thermostat answers a request   *)
(* with its frame, with a damaged frame, or not at all.  sockLog records   *)
(* each read or write called and the socket calls it made.                 *)
(***************************************************************************)
MaxOps == 2

Faults == {"answer", "damaged", "silent"}

\* what the socket holds when the thermostat's answer would be frame
Wire(fault, frame) ==
    CASE fault = "answer"  -> Data(frame)
      [] fault = "damaged" -> Data([frame EXCEPT ![Len(frame)] = (@ + 1) % 256])
      [] OTHER             -> NoData

Called(op) == SockCall(op, "called")

\* the reads and writes called so far
Ops == Cardinality({i \in DOMAIN sockLog : sockLog[i].status = "called"})

SessionRequests ==
    {Request("on_off", PyStr("On"), AnyTime),
     Request("on_off", PyStr("Sideways"), AnyTime)}

Init ==
    /\ crc16 = CRC16_Init
    /\ sock = "unset"
    /\ sent = <<>>
    /\ wire = NoData
    /\ outcome = Outcome("init", "ok", <<>>, <<>>)
    /\ info = NoInfo
    /\ pin = 4660
    /\ device = DeviceDcb(41, 0, 0, 1, 1)
    /\ crcLog = <<>>
    /\ request \in SessionRequests
    /\ sockLog = <<>>

Connect ==
    /\ \E reachable \in BOOLEAN :
       \E r \in {connect(Self, reachable)} :
           /\ sock' = r.sock
           /\ outcome' = Outcome("connect", r.status, <<>>, <<>>)
    /\ UNCHANGED <<crc16, sent, wire, info, pin, device, crcLog, request, sockLog>>

Disconnect ==
    /\ \E r \in {disconnect(Self)} :
           /\ sock' = r.sock
           /\ outcome' = Outcome("disconnect", r.status, <<>>, <<>>)
    /\ UNCHANGED <<crc16, sent, wire, info, pin, device, crcLog, request, sockLog>>

CallGetInfo ==
    /\ Ops < MaxOps
    /\ \E fault \in Faults :
       \E r \in {get_info(Self, Wire(fault, ReadReply(device)))} :
           /\ crc16' = r.crc16
           /\ sent' = sent \o r.out
           /\ outcome' = Outcome("get_info", r.status, <<>>, r.out)
           /\ info' = IF r.status = "ok" THEN r.info ELSE info
           /\ sockLog' = sockLog \o <<Called("get_info")>> \o r.calls
    /\ UNCHANGED <<sock, wire, pin, device, crcLog, request>>

CallSetValue ==
    /\ Ops < MaxOps
    /\ \E fault \in Faults :
       \E rx \in {Wire(fault, WriteReply(FieldWrite(request.name, request.value,
                                                    request.now).data))} :
       \E r \in {set_value(Self, request.name, request.value, request.now, rx)} :
           /\ crc16' = r.crc16
           /\ sent' = sent \o r.out
           /\ outcome' = Outcome("set_value", r.status,
                                 <<request.name, request.value>>, r.out)
           /\ sockLog' = sockLog \o <<Called("set_value")>> \o r.calls
    /\ UNCHANGED <<sock, wire, info, pin, device, crcLog, request>>

CallSetClock ==
    /\ Ops < MaxOps
    /\ \E fault \in Faults :
       \E rx \in {Wire(fault, WriteReply(ClockWrite(request.now).data))} :
       \E r \in {set_clock(Self, request.now, rx)} :
           /\ crc16' = r.crc16
           /\ sent' = sent \o r.out
           /\ outcome' = Outcome("set_clock", r.status, <<request.now>>, r.out)
           /\ sockLog' = sockLog \o <<Called("set_clock")>> \o r.calls
    /\ UNCHANGED <<sock, wire, info, pin, device, crcLog, request>>

Next ==
    \/ Connect
    \/ Disconnect
    \/ CallGetInfo
    \/ CallSetValue
    \/ CallSetClock

Spec == Init /\ [][Next]_vars


\* C11: disconnect() succeeds in every state of the session - never
\* connected, connected, after a read or write that succeeded or failed,
\* already disconnected - and a second disconnect() in a row leaves the
\* session as the first left it.
C11_DisconnectAlwaysSucceeds ==
    [][outcome'.op = "disconnect"
          => /\ outcome'.status = "ok"
             /\ outcome.op = "disconnect" => (sock' = sock /\ crc16' = crc16)]_vars

\* entry i of sockLog is a frame handed to the socket
IsSent(i) == sockLog[i] = SockCall("send", "ok")

IsRecv(i) == sockLog[i].call = "recv"

IsCalled(i) == sockLog[i].status = "called"

\* C12: in every sequence of reads and writes on one session a request
\* frame sent is followed by one receive attempt before anything else is
\* sent: a send is the first socket call of its operation, the receive
\* follows it and is the operation's last socket call (no request is sent
\* again after a receive, failed or not), the frames sent are the sends
\* logged, and a write that sent its frame ends as its receive ended.
C12_OneRequestOutstanding ==
    /\ \A i \in DOMAIN sockLog :
          /\ sockLog[i].call = "send" => (i > 1 /\ IsCalled(i - 1))
          /\ IsSent(i) => (i < Len(sockLog) /\ IsRecv(i + 1))
          /\ IsRecv(i) => (i > 1 /\ IsSent(i - 1))
          /\ IsRecv(i) => (i = Len(sockLog) \/ IsCalled(i + 1))
    /\ Cardinality({i \in DOMAIN sockLog : IsSent(i)}) = Len(sent)
    /\ (outcome.op \in {"set_value", "set_clock"} /\ sockLog # <<>>
        /\ IsRecv(Len(sockLog)))
          => outcome.status = sockLog[Len(sockLog)].status

\* a write got no acknowledgment and ended in Timeout, and the read called
\* after it sent its own request and was answered
C12_Witness ==
    /\ Len(sockLog) = 6
    /\ sockLog[1] = Called("set_value")
    /\ IsSent(2)
    /\ sockLog[3] = SockCall("recv", "Timeout")
    /\ sockLog[4] = Called("get_info")
    /\ IsSent(5)
    /\ sockLog[6] = SockCall("recv", "ok")
    /\ Len(sent) = 2
    /\ outcome = Outcome("get_info", "ok", <<>>, <<sent[2]>>)

\* the ISO weekday (Monday = 1 .. Sunday = 7) of the day whose %w is now.w
IsoWeekday(now) == IF now.w = 0 THEN 7 ELSE now.w

\* the label of that day in the words of the DoW table
DayLabel(now) == <<"SUN", "MON", "TUE", "WED", "THUR", "FRI", "SAT">>[now.w + 1]

\* the 4th byte of the 7-byte payload of a write frame
WeekdayByteOf(frame) == frame[13]

\* C13: on every day of the week, the weekday byte the clock write encodes
\* is the ISO weekday (Monday = 1 .. Sunday = 7) of the day of the write,
\* and DoW[weekday - 1] is the label of that day.
C13_ClockWeekdayIsIso ==
    (WroteValue /\ request.name = "clock" /\ FramesOfCall # <<>>) =>
        /\ IsWriteFrame(FramesOfCall[1], 43,
                        <<request.now.y, request.now.m, request.now.d,
                          IsoWeekday(request.now),
                          request.now.H, request.now.M, request.now.S>>)
        /\ DoWLabel(WeekdayByteOf(FramesOfCall[1])) = DayLabel(request.now)

\* the scalar fields that set_value has a branch for and get_info returns
RoundTripNames ==
    {"switch_differential", "frost_protect_temperature", "set_room_temp",
     "floor_max_limit", "floor_max_limit_enable", "on_off", "key_lock",
     "run_mode", "hot_water_state"}

\* the index get_info reads the field at, in the DCB of a PRTHW
ReadIndex(name) ==
    CASE name = "switch_differential" -> 6
      [] name = "frost_protect_temperature" -> 17
      [] name = "set_room_temp" -> 18
      [] name = "floor_max_limit" -> 19
      [] name = "floor_max_limit_enable" -> 20
      [] name = "on_off" -> 21
      [] name = "key_lock" -> 22
      [] name = "run_mode" -> 23
      [] name = "hot_water_state" -> 43

\* the value get_info returns under name from a PRTHW whose byte there is b,
\* as the caller would pass it to set_value
ReadBack(name, b) ==
    LET dcb == [DeviceDcb(107, 4, 0, 1, 1) EXCEPT ![ReadIndex(name) + 1] = b]
        raw == Decode(dcb).info[name]
    IN  CASE name \in LabelNames -> PyStr(raw)
          [] name = "floor_max_limit_enable" -> PyBool(raw)
          [] OTHER -> PyInt(raw)

ProbeBytes == {0, 1, 2, 5, 255}

\* values get_info can return under name
ReturnedValues(name) == {ReadBack(name, b) : b \in ProbeBytes}

\* C14: for every scalar field set_value supports and every value get_info
\* can return under its name, set_value(name, value) is accepted and sends
\* one byte that get_info decodes back to that value.
C14_ReturnedValueWritesBack ==
    (WroteValue /\ request.name \in RoundTripNames
     /\ request.value \in ReturnedValues(request.name)) =>
        /\ outcome.status = "ok"
        /\ Len(FramesOfCall) = 1
        /\ FramesOfCall[1][9] = 1
        /\ ReadBack(request.name, FramesOfCall[1][10]) = request.value

\* the trigger groups get_info returns and set_value lists addresses for
ListedTriggerNames == TriggerNames \cup {"weekend_hw_triggers"}

\* the address listed for each group: 47, 59, 71, 87, and for the day
\* groups 103 + 12 * k (heating) and 187 + 16 * k (hot water), k = 0..6
ListedAddress(name) ==
    CASE name = "weekday_triggers" -> 47
      [] name = "weekend_triggers" -> 59
      [] name = "weekday_hw_triggers" -> 71
      [] name = "weekend_hw_triggers" -> 87
      [] \E k \in 1..7 : name = DayNames[k] \o "_triggers" ->
            103 + 12 * ((CHOOSE k \in 1..7 : name = DayNames[k] \o "_triggers") - 1)
      [] OTHER ->
            187 + 16 * ((CHOOSE k \in 1..7 : name = DayNames[k] \o "_hw_triggers") - 1)

\* C15: every trigger-group name is accepted by set_value and written at
\* its own address: weekday_hw_triggers at 71, weekend_hw_triggers at 87,
\* the day groups at 103 + 12 * k and 187 + 16 * k; no two names share an
\* address.
C15_EachTriggerGroupHasItsAddress ==
    /\ (WroteValue /\ request.name \in ListedTriggerNames
        /\ request.value.kind = "list" /\ BytearrayOk(request.value.l))
          => WroteAt(ListedAddress(request.name), request.value.l)
    /\ \A a, b \in ListedTriggerNames :
          a # b => ListedAddress(a) # ListedAddress(b)


=============================================================================
